---------------------------- MODULE Spec2Model ----------------------------
(***************************************************************************)
(* Model of the planar Delaunay triangulator of sdf/delaunay.go            *)
(* (V2Set.SuperTriangle, Triangle2.Circumcenter, Triangle2.InCircumcircle, *)
(* V2Set.Delaunay2d).                                                      *)
(*                                                                         *)
(* float64 values are modelled as exact rationals <<num, den>> in lowest   *)
(* terms with den > 0.  A division by zero yields NaN == <<0, 0>>, which   *)
(* propagates through arithmetic and makes every comparison false.         *)
(* A rational a stands for the float64 value a * unit.m * 10^-unit.e, so   *)
(* that points whose coordinates are a few multiples of a small length are *)
(* inputs of the model; the arithmetic of the code is homogeneous in the   *)
(* unit except where it compares with EPSILON or assigns the constant 1.   *)
(* Sequences are 1-based here; the loop counters i, j, nt and the vertex   *)
(* indices stored in triangles and edges keep the 0-based values of the    *)
(* Go code, so slot j of the Go slice ts is ts[j + 1].                     *)
(***************************************************************************)
EXTENDS Integers, Sequences, FiniteSets, Bags, TLC

\* ---- bounds of the model ------------------------------------------------
MaxN == 4       \* longest point sequence passed to Delaunay2d
MaxX == 3       \* input x coordinates are 0 .. MaxX
MaxY == 1       \* input y coordinates are 0 .. MaxY
MaxCalls == 2   \* number of calls the caller makes on the same points
MaxNSmall == 5  \* longest sequence of points a small unit apart

\* ---- float64 as exact rationals ------------------------------------------
RECURSIVE GCD(_, _)
GCD(a, b) == IF b = 0 THEN a ELSE GCD(b, a % b)

IAbs(x) == IF x < 0 THEN -x ELSE x

NaN == <<0, 0>>

IsNaN(a) == a[2] = 0

Rat(n, d) ==
    IF d = 0 THEN NaN
    ELSE LET g == GCD(IAbs(n), IAbs(d))
             s == IF d < 0 THEN -1 ELSE 1
         IN  <<s * (n \div g), s * (d \div g)>>

R(n) == <<n, 1>>

RNeg(a) == <<-a[1], a[2]>>

RAdd(a, b) ==
    IF IsNaN(a) \/ IsNaN(b) THEN NaN
    ELSE LET g == GCD(a[2], b[2])
         IN  Rat(a[1] * (b[2] \div g) + b[1] * (a[2] \div g), a[2] * (b[2] \div g))

RSub(a, b) == RAdd(a, RNeg(b))

RMul(a, b) ==
    IF IsNaN(a) \/ IsNaN(b) THEN NaN
    ELSE IF a[1] = 0 \/ b[1] = 0 THEN <<0, 1>>
    ELSE LET g1 == GCD(IAbs(a[1]), b[2])
             g2 == GCD(IAbs(b[1]), a[2])
         IN  <<(a[1] \div g1) * (b[1] \div g2), (a[2] \div g2) * (b[2] \div g1)>>

RDiv(a, b) ==
    IF IsNaN(a) \/ IsNaN(b) \/ b[1] = 0 THEN NaN
    ELSE IF b[1] < 0 THEN RMul(a, <<-b[2], -b[1]>>)
    ELSE RMul(a, <<b[2], b[1]>>)

RLt(a, b) == ~IsNaN(a) /\ ~IsNaN(b) /\ RSub(a, b)[1] < 0

RLe(a, b) == ~IsNaN(a) /\ ~IsNaN(b) /\ RSub(a, b)[1] <= 0

RGt(a, b) == RLt(b, a)

\* Abs of utils: absolute value of a float64
Abs(a) == <<IAbs(a[1]), a[2]>>

\* math.Max / math.Min on float64
RMax(a, b) == IF RLt(a, b) THEN b ELSE a

RMin(a, b) == IF RLt(b, a) THEN b ELSE a

\* the length one unit of the model's numbers stands for: unit.m * 10^-unit.e
VARIABLE unit

\* The units of the inputs: 1, and 4.9e-7 = 49/100 * 10^-6.
UnitOne == [m |-> R(1), e |-> 0]

UnitSmall == [m |-> Rat(49, 100), e |-> 6]

\* EPSILON is 10^-EPSILON_DIGITS.  n/d < 10^-e  <=>  n <= (d - 1) \div 10^e,
\* and n/d <= 10^-e  <=>  n <= d \div 10^e; the quotient is taken one decimal
\* digit at a time so that 10^e itself is never formed.
EPSILON_DIGITS == 12

RECURSIVE DivPow10(_, _)
DivPow10(d, e) == IF e = 0 THEN d ELSE DivPow10(d \div 10, e - 1)

LtPow10(a, e) == ~IsNaN(a) /\ a[1] <= DivPow10(a[2] - 1, e)

LePow10(a, e) == ~IsNaN(a) /\ a[1] <= DivPow10(a[2], e)

\* "fabsy < EPSILON" for a length a: a * unit.m * 10^-unit.e < EPSILON
LtEPSILON(a) == LtPow10(RMul(a, unit.m), EPSILON_DIGITS - unit.e)

\* "d2-r2 <= EPSILON" for a squared length a:
\* a * unit.m^2 * 10^-(2 * unit.e) <= EPSILON
LeEPSILON(a) == LePow10(RMul(a, RMul(unit.m, unit.m)), EPSILON_DIGITS - 2 * unit.e)

\* ---- V2, V2Set, Box2 -----------------------------------------------------
V2(x, y) == [X |-> x, Y |-> y]

V2Zero == V2(R(0), R(0))

\* V2.Add
Add(a, b) == V2(RAdd(a.X, b.X), RAdd(a.Y, b.Y))

\* V2.Sub
Sub(a, b) == V2(RSub(a.X, b.X), RSub(a.Y, b.Y))

\* V2.MaxComponent, as the design describes it: max(|x|, |y|)
MaxComponent(a) == RMax(Abs(a.X), Abs(a.Y))

RECURSIVE SetMin(_, _)
SetMin(s, k) ==
    IF k = 1 THEN s[1]
    ELSE LET m == SetMin(s, k - 1)
         IN  V2(RMin(m.X, s[k].X), RMin(m.Y, s[k].Y))

RECURSIVE SetMax(_, _)
SetMax(s, k) ==
    IF k = 1 THEN s[1]
    ELSE LET m == SetMax(s, k - 1)
         IN  V2(RMax(m.X, s[k].X), RMax(m.Y, s[k].Y))

\* V2Set.Min / V2Set.Max: component-wise minimum / maximum of the points
Min(s) == SetMin(s, Len(s))

Max(s) == SetMax(s, Len(s))

\* Box2.Size and Box2.Center of the box {lo, hi}
Size(lo, hi) == Sub(hi, lo)

Center(lo, hi) ==
    V2(RDiv(RAdd(lo.X, hi.X), R(2)), RDiv(RAdd(lo.Y, hi.Y), R(2)))

\* ---- V2Set.SuperTriangle -------------------------------------------------
\* The three vertices p + (-k,-k), p + (0,k), p + (k,-k)
TriangleAround(p, k) ==
    <<Add(p, V2(RNeg(k), RNeg(k))), Add(p, V2(R(0), k)), Add(p, V2(k, RNeg(k)))>>

\* the float64 1.0 in units: 10^unit.e / unit.m
RECURSIVE Pow10(_)
Pow10(e) == IF e = 0 THEN 1 ELSE 10 * Pow10(e - 1)

One == RDiv(R(Pow10(unit.e)), unit.m)

\* "if k == 0 { k = 1 }"
OneIfZero(k) == IF k = R(0) THEN One ELSE k

\* The half-extent the single-point branch computes: MaxComponent * 0.125,
\* replaced by 1 when that is zero.
SinglePointExtent(p) == OneIfZero(RMul(MaxComponent(p), Rat(1, 8)))

\* Variant: the half-extent is half the box size, not twice.
BoxTriangleHalfExtent(lo, hi) ==
    TriangleAround(Center(lo, hi), RDiv(MaxComponent(Size(lo, hi)), R(2)))

\* The else branch: p = b.Center(), k = b.Size().MaxComponent() * 2.0 for the
\* box b = {lo, hi}, then the three vertices.
BoxTriangle(lo, hi) ==
    TriangleAround(Center(lo, hi), RMul(MaxComponent(Size(lo, hi)), R(2)))

\* Variant: the empty-input test also rejects a single point.
SuperTriangleRejectsSingle(s) ==
    IF Len(s) <= 1 THEN [err |-> TRUE, t |-> <<>>]
    ELSE [err |-> FALSE, t |-> BoxTriangle(Min(s), Max(s))]

\* SuperTriangle returns ([]V2, error).  "var p V2; var k float64" declare
\* the values the triangle is built from.  In the single-point branch
\* "p := s[0]" and "k := ..." declare new variables local to that block, so
\* the outer p and k keep their zero values and SinglePointExtent(s[1]) is
\* computed and dropped; in the other branch "p =" and "k =" assign the outer
\* variables.
SuperTriangle(s) ==
    IF Len(s) = 0 THEN [err |-> TRUE, t |-> <<>>]
    ELSE IF Len(s) = 1 THEN [err |-> FALSE, t |-> TriangleAround(V2Zero, R(0))]
    ELSE [err |-> FALSE, t |-> BoxTriangle(Min(s), Max(s))]

\* ---- Triangle2.Circumcenter / Triangle2.InCircumcircle -------------------
\* -(xb - xa) / (yb - ya)
Slope(xa, ya, xb, yb) == RNeg(RDiv(RSub(xb, xa), RSub(yb, ya)))

\* Variant: the sum is not halved.
MidNotHalved(a, b) == RAdd(a, b)

\* (a + b) / 2.0
Mid(a, b) == RDiv(RAdd(a, b), R(2))

\* the point (xc, m*(xc - mx) + my)
OnBisector(xc, m, mx, my) == V2(xc, RAdd(RMul(m, RSub(xc, mx)), my))

\* xc = (m1*mx1 - m2*mx2 + my2 - my1) / (m1 - m2)
BisectorsMeetX(m1, m2, mx1, mx2, my1, my2) ==
    RDiv(RSub(RAdd(RSub(RMul(m1, mx1), RMul(m2, mx2)), my2), my1), RSub(m1, m2))

\* the last branch: neither edge is horizontal
GeneralCenter(xc, m1, m2, mx1, mx2, my1, my2, fabsy1y2, fabsy2y3) ==
    IF RGt(fabsy1y2, fabsy2y3)
    THEN OnBisector(xc, m1, mx1, my1)
    ELSE OnBisector(xc, m2, mx2, my2)

GeneralCase(m1, m2, mx1, mx2, my1, my2, fabsy1y2, fabsy2y3) ==
    GeneralCenter(BisectorsMeetX(m1, m2, mx1, mx2, my1, my2),
                  m1, m2, mx1, mx2, my1, my2, fabsy1y2, fabsy2y3)

CircumcenterCases(x1, y1, x2, y2, x3, y3, horiz12, horiz23, fabsy1y2, fabsy2y3) ==
    IF horiz12 /\ horiz23
    THEN [err |-> TRUE, c |-> V2Zero]
    ELSE IF horiz12
    THEN [err |-> FALSE,
          c |-> OnBisector(Mid(x2, x1), Slope(x2, y2, x3, y3), Mid(x2, x3), Mid(y2, y3))]
    ELSE IF horiz23
    THEN [err |-> FALSE,
          c |-> OnBisector(Mid(x3, x2), Slope(x1, y1, x2, y2), Mid(x1, x2), Mid(y1, y2))]
    ELSE [err |-> FALSE,
          c |-> GeneralCase(Slope(x1, y1, x2, y2), Slope(x2, y2, x3, y3),
                            Mid(x1, x2), Mid(x2, x3), Mid(y1, y2), Mid(y2, y3),
                            fabsy1y2, fabsy2y3)]

CircumcenterFabs(x1, y1, x2, y2, x3, y3, fabsy1y2, fabsy2y3) ==
    CircumcenterCases(x1, y1, x2, y2, x3, y3,
                      LtEPSILON(fabsy1y2), LtEPSILON(fabsy2y3), fabsy1y2, fabsy2y3)

\* Circumcenter returns (V2, error); t is a sequence of three V2.
\* fabsy1y2 < EPSILON && fabsy2y3 < EPSILON is the "coincident points" error.
Circumcenter(t) ==
    CircumcenterFabs(t[1].X, t[1].Y, t[2].X, t[2].Y, t[3].X, t[3].Y,
                     Abs(RSub(t[1].Y, t[2].Y)), Abs(RSub(t[2].Y, t[3].Y)))

\* dx*dx + dy*dy
SumSquares(dx, dy) == RAdd(RMul(dx, dx), RMul(dy, dy))

\* inside = d2 - r2 <= EPSILON; done = (dx > 0) && (dx*dx > r2)
InsideDone(r2, dx, d2) ==
    [inside |-> LeEPSILON(RSub(d2, r2)),
     done |-> RGt(dx, R(0)) /\ RGt(RMul(dx, dx), r2)]

PointTest(r2, dx, dy) == InsideDone(r2, dx, SumSquares(dx, dy))

\* variant: a failed Circumcenter leaves the triangle open
InCircumcircleOfErrNotDone(cc, t, p) ==
    IF cc.err THEN [inside |-> FALSE, done |-> FALSE]
    ELSE PointTest(SumSquares(RSub(t[1].X, cc.c.X), RSub(t[1].Y, cc.c.Y)),
                   RSub(p.X, cc.c.X), RSub(p.Y, cc.c.Y))

InCircumcircleOf(cc, t, p) ==
    IF cc.err THEN [inside |-> FALSE, done |-> TRUE]
    ELSE PointTest(SumSquares(RSub(t[1].X, cc.c.X), RSub(t[1].Y, cc.c.Y)),
                   RSub(p.X, cc.c.X), RSub(p.Y, cc.c.Y))

\* InCircumcircle returns (inside, done)
InCircumcircle(t, p) == InCircumcircleOf(Circumcenter(t), t, p)

\* ---- sort.Sort(V2SetByX(vs)) ---------------------------------------------
Range(s) == {s[k] : k \in DOMAIN s}

SeqToBag(s) == [p \in Range(s) |-> Cardinality({k \in DOMAIN s : s[k] = p})]

Perms(s) == {[k \in 1..Len(s) |-> s[f[k]]] : f \in Permutations(1..Len(s))}

\* V2SetByX.Less: order by the x coordinate alone
Less(a, b) == RLt(a.X, b.X)

\* Variant: the comparison is reversed.
LessReversed(a, b) == RLt(b.X, a.X)

IsSortedByX(s) == \A k \in 1..(Len(s) - 1) : ~Less(s[k + 1], s[k])

\* Variant: the sort is left out.
SortByXOmitted(s) == {s}

\* Variant: the sort orders by descending x.
SortByXDescending(s) ==
    {t \in Perms(s) : \A k \in 1..(Len(t) - 1) : ~LessReversed(t[k + 1], t[k])}

\* The outcomes of sort.Sort: the sort is not stable, so every arrangement of
\* the same points in which no element is Less than its predecessor.
SortByX(s) == {t \in Perms(s) : IsSortedByX(t)}

\* ---- pieces of V2Set.Delaunay2d ------------------------------------------
\* Triangle2{vs[t[0]], vs[t[1]], vs[t[2]]}
Triangle2(v, t) == <<v[t[1] + 1], v[t[2] + 1], v[t[3] + 1]>>

\* the three directed edges of a removed triangle, in the order appended
TriangleEdges(t) == <<<<t[1], t[2]>>, <<t[2], t[3]>>, <<t[3], t[1]>>>>

Tagged == <<-1, -1>>

\* the body of the inner loop for the pair (j, k): tag a reverse pair, then
\* tag an equal pair
TagReverse(e, j0, k0) ==
    IF e[j0 + 1][1] = e[k0 + 1][2] /\ e[j0 + 1][2] = e[k0 + 1][1]
    THEN [e EXCEPT ![j0 + 1] = Tagged, ![k0 + 1] = Tagged]
    ELSE e

TagEqual(e, j0, k0) ==
    IF e[j0 + 1][1] = e[k0 + 1][1] /\ e[j0 + 1][2] = e[k0 + 1][2]
    THEN [e EXCEPT ![j0 + 1] = Tagged, ![k0 + 1] = Tagged]
    ELSE e

\* for k := k0; k < len(es); k++
RECURSIVE TagInner(_, _, _)
TagInner(e, j0, k0) ==
    IF k0 >= Len(e) THEN e
    ELSE TagInner(TagEqual(TagReverse(e, j0, k0), j0, k0), j0, k0 + 1)

\* for j := j0; j < len(es)-1; j++
RECURSIVE TagOuter(_, _)
TagOuter(e, j0) ==
    IF j0 >= Len(e) - 1 THEN e
    ELSE TagOuter(TagInner(e, j0, j0 + 1), j0 + 1)

\* "Tag multiple edges": the pairwise scan over the edge buffer
TagMultipleEdges(e) == TagOuter(e, 0)

\* Variant: the new triangle takes the edge in reverse.
NewTriangleReversed(e, i) == <<e[2], e[1], i>>

\* TriangleI{e[0], e[1], i}
NewTriangle(e, i) == <<e[1], e[2], i>>

\* the triangles formed for point i from the edges that were not tagged
NewTriangles(e, i) ==
    LET keep == SelectSeq(e, LAMBDA x : ~(x[1] < 0 \/ x[2] < 0))
    IN  [k \in 1..Len(keep) |-> NewTriangle(keep[k], i)]

\* Variant: no triangle is taken to have a super triangle vertex.
HasSuperVertexNone(t, n) == FALSE

\* Variant: only the first vertex is tested.
HasSuperVertexFirstOnly(t, n) == t[1] >= n

\* t[0] >= n || t[1] >= n || t[2] >= n
HasSuperVertex(t, n) == t[1] >= n \/ t[2] >= n \/ t[3] >= n

\* a returned triangle read as the set of its vertex coordinates
TriPoints(v, t) == {v[t[1] + 1], v[t[2] + 1], v[t[3] + 1]}

TriSet(v, tris) == {TriPoints(v, tris[k]) : k \in DOMAIN tris}

\* ---- state ---------------------------------------------------------------
VARIABLES
    pc,        \* "idle" | "point" | "scan" | "cancel" | "form" | "final" | "done"
    vs,        \* the caller's point sequence
    vsx,       \* Delaunay2d's vs after append(vs, t...)
    n,         \* n := len(vs)
    ts,        \* the triangles
    done,      \* the done flags, parallel to ts
    es,        \* the edge buffer of the current point
    i,         \* index of the point being inserted
    j,         \* index of the scan in progress
    nt,        \* live count of the scan in progress
    ret,       \* the returned triangles
    err,       \* TRUE when the call returned an error
    arg,       \* the points passed to the call, as a bag
    argSorted, \* whether they were passed in ascending x order
    prev,      \* TriSet of the previous call's result, {} before it
    calls,     \* calls started so far
    ignoreDone,\* TRUE while the engine runs with the done flag ignored
    withDone   \* the triangles Delaunay2d returned before that run, {} otherwise

vars == <<pc, vs, vsx, n, ts, done, es, i, j, nt, ret, err, arg, argSorted, prev, calls,
          ignoreDone, withDone, unit>>

Grid == {V2(R(x), R(y)) : x \in 0..MaxX, y \in 0..MaxY}

Inputs == UNION {[1..k -> Grid] : k \in 0..MaxN}

\* distinct points a small unit apart, passed in ascending x order
InputsSmall ==
    {s \in UNION {[1..k -> Grid] : k \in 0..MaxNSmall} :
        /\ IsSortedByX(s)
        /\ \A a, b \in DOMAIN s : s[a] = s[b] => a = b}

\* the state before the first call on one of the sequences in, the points
\* given in units of u
Start(u, in) ==
    /\ unit = u
    /\ vs \in in
    /\ pc = "idle"
    /\ vsx = <<>>
    /\ n = 0
    /\ ts = <<>>
    /\ done = <<>>
    /\ es = <<>>
    /\ i = 0
    /\ j = 0
    /\ nt = 0
    /\ ret = <<>>
    /\ err = FALSE
    /\ arg = SeqToBag(vs)
    /\ argSorted = IsSortedByX(vs)
    /\ prev = {}
    /\ calls = 0
    /\ ignoreDone = FALSE
    /\ withDone = {}

Init == Start(UnitOne, Inputs)

\* points with coordinates 0, 4.9e-7, 9.8e-7, ...
InitSmall == Start(UnitSmall, InputsSmall)

\* the outcome of "t, err := vs.SuperTriangle()": return the error, or append
\* t to vs and set the super triangle as the 0th triangle
Seed(st, sorted) ==
    IF st.err
    THEN /\ pc' = "done"
         /\ err' = TRUE
         /\ UNCHANGED <<vsx, ts, done>>
    ELSE /\ pc' = "point"
         /\ err' = FALSE
         /\ vsx' = sorted \o st.t
         /\ ts' = <<<<Len(sorted), Len(sorted) + 1, Len(sorted) + 2>>>>
         /\ done' = <<FALSE>>

\* Delaunay2d up to the first loop test: sort, super triangle, seed triangle
Call ==
    /\ pc = "idle"
    /\ calls' = calls + 1
    /\ n' = Len(vs)
    /\ vs' \in SortByX(vs)
    /\ Seed(SuperTriangle(vs'), vs')
    /\ i' = 0
    /\ ret' = <<>>
    /\ UNCHANGED <<es, j, nt, arg, argSorted, prev, ignoreDone, withDone, unit>>

\* for i := 0; i < n; i++ : the loop test, then either the head of the body
\* (es, nt) or the head of the finalization (nt)
NextPoint ==
    /\ pc = "point"
    /\ nt' = Len(ts)
    /\ j' = 0
    /\ es' = <<>>
    /\ pc' = IF i < n THEN "scan" ELSE "final"
    /\ UNCHANGED <<vs, vsx, n, ts, done, i, ret, err, arg, argSorted, prev, calls, ignoreDone, withDone, unit>>

\* "remove the triangle (copy in the tail)": s[j] = s[nt-1]
CopyInTail(s, j0, nt0) == [s EXCEPT ![j0 + 1] = s[nt0]]

\* variant: the removal copies in the tail and leaves the live count as it is
TestedCountKept(r) ==
    IF r.inside
    THEN /\ es' = es \o TriangleEdges(ts[j + 1])
         /\ ts' = CopyInTail(ts, j, nt)
         /\ done' = CopyInTail([done EXCEPT ![j + 1] = r.done], j, nt)
         /\ nt' = nt
         /\ j' = j
    ELSE /\ done' = [done EXCEPT ![j + 1] = r.done]
         /\ j' = j + 1
         /\ UNCHANGED <<ts, es, nt>>

\* the body of the scan once "inside, complete := t.InCircumcircle(v)" is r
Tested(r) ==
    IF r.inside
    THEN /\ es' = es \o TriangleEdges(ts[j + 1])
         /\ ts' = CopyInTail(ts, j, nt)
         /\ done' = CopyInTail([done EXCEPT ![j + 1] = r.done], j, nt)
         /\ nt' = nt - 1
         /\ j' = j
    ELSE /\ done' = [done EXCEPT ![j + 1] = r.done]
         /\ j' = j + 1
         /\ UNCHANGED <<ts, es, nt>>

\* one iteration of the scan over the triangles for point i
ScanStep ==
    /\ pc = "scan"
    /\ j < nt
    /\ ~ignoreDone
    /\ IF done[j + 1]
       THEN /\ j' = j + 1
            /\ UNCHANGED <<ts, done, es, nt>>
       ELSE Tested(InCircumcircle(Triangle2(vsx, ts[j + 1]), vsx[i + 1]))
    /\ UNCHANGED <<pc, vs, vsx, n, i, ret, err, arg, argSorted, prev, calls, ignoreDone, withDone, unit>>

\* the same iteration in the engine that ignores the done flag: every
\* triangle is tested against the point
ScanStepIgnoringDone ==
    /\ pc = "scan"
    /\ j < nt
    /\ ignoreDone
    /\ Tested(InCircumcircle(Triangle2(vsx, ts[j + 1]), vsx[i + 1]))
    /\ UNCHANGED <<pc, vs, vsx, n, i, ret, err, arg, argSorted, prev, calls, ignoreDone, withDone, unit>>

\* the scan's loop exit and the re-size of the triangle/done sets
ScanEnd ==
    /\ pc = "scan"
    /\ j >= nt
    /\ ts' = SubSeq(ts, 1, nt)
    /\ done' = SubSeq(done, 1, nt)
    /\ pc' = "cancel"
    /\ UNCHANGED <<vs, vsx, n, es, i, j, nt, ret, err, arg, argSorted, prev, calls, ignoreDone, withDone, unit>>

\* the pairwise scan that tags multiple edges
CancelEdges ==
    /\ pc = "cancel"
    /\ es' = TagMultipleEdges(es)
    /\ pc' = "form"
    /\ UNCHANGED <<vs, vsx, n, ts, done, i, j, nt, ret, err, arg, argSorted, prev, calls, ignoreDone, withDone, unit>>

\* form the new triangles for point i, then i++
FormTriangles ==
    /\ pc = "form"
    /\ LET new == NewTriangles(es, i)
       IN  /\ ts' = ts \o new
           /\ done' = done \o [k \in 1..Len(new) |-> FALSE]
    /\ i' = i + 1
    /\ pc' = "point"
    /\ UNCHANGED <<vs, vsx, n, es, j, nt, ret, err, arg, argSorted, prev, calls, ignoreDone, withDone, unit>>

\* one iteration of the scan that removes triangles with super triangle vertices
FinalStep ==
    /\ pc = "final"
    /\ j < nt
    /\ IF HasSuperVertex(ts[j + 1], n)
       THEN /\ ts' = CopyInTail(ts, j, nt)
            /\ nt' = nt - 1
            /\ j' = j
       ELSE /\ j' = j + 1
            /\ UNCHANGED <<ts, nt>>
    /\ UNCHANGED <<pc, vs, vsx, n, done, es, i, ret, err, arg, argSorted, prev, calls, ignoreDone, withDone, unit>>

\* the loop exit, the re-size and the return
Return ==
    /\ pc = "final"
    /\ j >= nt
    /\ ts' = SubSeq(ts, 1, nt)
    /\ ret' = SubSeq(ts, 1, nt)
    /\ pc' = "done"
    /\ UNCHANGED <<vs, vsx, n, done, es, i, j, nt, err, arg, argSorted, prev, calls, ignoreDone, withDone, unit>>

\* the triangles of a result, each as the set of its vertex indices
TriangleSet(tris) == {{tris[k][1], tris[k][2], tris[k][3]} : k \in DOMAIN tris}

\* after Delaunay2d has returned, the engine that ignores the done flag is
\* run on the same points in the order Delaunay2d left them in
CallIgnoringDone ==
    /\ pc = "done"
    /\ ~err
    /\ ~ignoreDone
    /\ ignoreDone' = TRUE
    /\ withDone' = TriangleSet(ret)
    /\ n' = Len(vs)
    /\ Seed(SuperTriangle(vs), vs)
    /\ i' = 0
    /\ ret' = <<>>
    /\ UNCHANGED <<vs, es, j, nt, arg, argSorted, prev, calls, unit>>

\* the caller runs Delaunay2d again on the same points in some order
CallAgain ==
    /\ pc = "done"
    /\ calls < MaxCalls
    /\ ~err
    /\ ~ignoreDone
    /\ prev' = TriSet(vsx, ret)
    /\ vs' \in Perms(vs)
    /\ argSorted' = IsSortedByX(vs')
    /\ pc' = "idle"
    /\ vsx' = <<>>
    /\ n' = 0
    /\ ts' = <<>>
    /\ done' = <<>>
    /\ es' = <<>>
    /\ i' = 0
    /\ j' = 0
    /\ nt' = 0
    /\ ret' = <<>>
    /\ withDone' = {}
    /\ UNCHANGED <<err, arg, calls, ignoreDone, unit>>

Next ==
    \/ Call
    \/ NextPoint
    \/ ScanStep
    \/ ScanStepIgnoringDone
    \/ ScanEnd
    \/ CancelEdges
    \/ FormTriangles
    \/ FinalStep
    \/ Return
    \/ CallAgain
    \/ CallIgnoringDone

Spec == Init /\ [][Next]_vars

\* the same calls on points a few multiples of 4.9e-7 apart
SpecSmall == InitSmall /\ [][Next]_vars

\* ---- properties -----------------------------------------------------------
Returned == pc = "done" /\ ~err /\ ~ignoreDone

\* C1: Delaunay2d returns an error if and only if the point sequence is
\* empty; on an error it returns no triangles, and every non-empty input
\* (duplicates, collinear points and a single point included) returns without
\* an error.
C1_ErrorIffEmpty ==
    pc = "done" => /\ err <=> Len(vs) = 0
                   /\ err => ret = <<>>

C1_Witness == pc = "done" /\ ~err /\ Len(vs) = 1

\* C2: every returned triangle has three pairwise distinct vertex indices,
\* each in 0 .. n-1, so none is a super triangle vertex n, n+1 or n+2.
C2_IndicesDistinctInRange ==
    Returned =>
        \A k \in DOMAIN ret :
            /\ ret[k][1] # ret[k][2] /\ ret[k][2] # ret[k][3] /\ ret[k][1] # ret[k][3]
            /\ \A m \in 1..3 : ret[k][m] \in 0..(n - 1)

C2_Witness == Returned /\ Len(ret) >= 2

\* ---- plane geometry of the input points, for the properties ---------------
\* Input points have integer coordinates: the numerators of X and Y.
PX(p) == p.X[1]

PY(p) == p.Y[1]

\* > 0 when a, b, c turn anticlockwise, < 0 clockwise, 0 when collinear
Orient(a, b, c) ==
    (PX(b) - PX(a)) * (PY(c) - PY(a)) - (PY(b) - PY(a)) * (PX(c) - PX(a))

Det3(a1, a2, a3, b1, b2, b3, c1, c2, c3) ==
    a1 * (b2 * c3 - b3 * c2) - a2 * (b1 * c3 - b3 * c1) + a3 * (b1 * c2 - b2 * c1)

Sq(x) == x * x

\* the in-circle determinant of a, b, c against q: 0 when the four points are
\* cocircular (or a, b, c collinear with q on their line)
InCircleDet(a, b, c, q) ==
    Det3(PX(a) - PX(q), PY(a) - PY(q), Sq(PX(a) - PX(q)) + Sq(PY(a) - PY(q)),
         PX(b) - PX(q), PY(b) - PY(q), Sq(PX(b) - PX(q)) + Sq(PY(b) - PY(q)),
         PX(c) - PX(q), PY(c) - PY(q), Sq(PX(c) - PX(q)) + Sq(PY(c) - PY(q)))

\* q lies strictly inside the circle through a, b, c (which exists only when
\* a, b, c are not collinear)
StrictlyInCircle(a, b, c, q) ==
    /\ Orient(a, b, c) > 0 => InCircleDet(a, b, c, q) > 0
    /\ Orient(a, b, c) < 0 => InCircleDet(a, b, c, q) < 0
    /\ Orient(a, b, c) # 0

Vertices(t) == {t[1], t[2], t[3]}

DirectedEdges(t) == {<<t[1], t[2]>>, <<t[2], t[3]>>, <<t[3], t[1]>>}

UndirectedEdges(t) == {{t[1], t[2]}, {t[2], t[3]}, {t[3], t[1]}}

\* the returned triangles that have the undirected edge e
TrianglesWithEdge(e) == {k \in DOMAIN ret : e \in UndirectedEdges(ret[k])}

\* the edge between the points with 0-based indices a and b lies on the
\* convex hull of vs: no two points of vs are strictly on opposite sides of it
OnHull(a, b) ==
    \/ \A q \in DOMAIN vs : Orient(vs[a + 1], vs[b + 1], vs[q]) >= 0
    \/ \A q \in DOMAIN vs : Orient(vs[a + 1], vs[b + 1], vs[q]) <= 0

\* no three points of vs collinear (so no two equal), no four cocircular
GeneralPosition ==
    /\ \A a, b, c \in DOMAIN vs :
         (a < b /\ b < c) => Orient(vs[a], vs[b], vs[c]) # 0
    /\ \A a, b, c, d \in DOMAIN vs :
         (a < b /\ b < c /\ c < d) => InCircleDet(vs[a], vs[b], vs[c], vs[d]) # 0

\* h, for points in general position: a point is a hull vertex when some
\* line through it and another point has every other point strictly on its left
HullVertices ==
    {a \in DOMAIN vs :
        \E b \in DOMAIN vs \ {a} :
            \A c \in DOMAIN vs \ {a, b} : Orient(vs[a], vs[b], vs[c]) > 0}

NoXTies == \A a, b \in DOMAIN vs : vs[a].X = vs[b].X => vs[a] = vs[b]

\* orientation of three points with rational coordinates
ROrient(a, b, c) ==
    RSub(RMul(RSub(b.X, a.X), RSub(c.Y, a.Y)), RMul(RSub(b.Y, a.Y), RSub(c.X, a.X)))

\* q is inside or on the clockwise triangle t (a single point when t has
\* collapsed to one)
InOrOnTriangle(t, q) ==
    /\ RLe(ROrient(t[1], t[2], q), R(0))
    /\ RLe(ROrient(t[2], t[3], q), R(0))
    /\ RLe(ROrient(t[3], t[1], q), R(0))
    /\ (t[1] = t[2] /\ t[2] = t[3]) => q = t[1]

SetMinInt(S) == CHOOSE x \in S : \A y \in S : x <= y

SetMaxInt(S) == CHOOSE x \in S : \A y \in S : x >= y

\* the triangle c + (-k,-k), c + (0,k), c + (k,-k) for the bounding box with
\* corners (x0, y0), (x1, y1): c its centre, k twice its larger side
BoundingTriangle(x0, y0, x1, y1, k) ==
    << V2(RSub(Rat(x0 + x1, 2), R(k)), RSub(Rat(y0 + y1, 2), R(k))),
       V2(Rat(x0 + x1, 2), RAdd(Rat(y0 + y1, 2), R(k))),
       V2(RAdd(Rat(x0 + x1, 2), R(k)), RSub(Rat(y0 + y1, 2), R(k))) >>

ExpectedSuperTriangle ==
    BoundingTriangle(SetMinInt({PX(vs[k]) : k \in DOMAIN vs}),
                     SetMinInt({PY(vs[k]) : k \in DOMAIN vs}),
                     SetMaxInt({PX(vs[k]) : k \in DOMAIN vs}),
                     SetMaxInt({PY(vs[k]) : k \in DOMAIN vs}),
                     2 * SetMaxInt({PX(vs[a]) - PX(vs[b]) : a, b \in DOMAIN vs}
                                   \cup {PY(vs[a]) - PY(vs[b]) : a, b \in DOMAIN vs}))

\* the call is past SuperTriangle without an error: vsx holds the n points
\* followed by the super triangle
Seeded == pc # "idle" /\ ~err

\* C3: Delaunay property: no input point that is not a vertex of a returned
\* triangle lies strictly inside that triangle's circumcircle.
C3_Delaunay ==
    Returned =>
        \A k \in DOMAIN ret : \A q \in 0..(n - 1) :
            q \notin Vertices(ret[k]) =>
                ~StrictlyInCircle(vs[ret[k][1] + 1], vs[ret[k][2] + 1], vs[ret[k][3] + 1],
                                  vs[q + 1])

C3_Witness ==
    /\ Returned
    /\ Len(ret) >= 2
    /\ \E k \in DOMAIN ret : \E q \in 0..(n - 1) :
         /\ q \notin Vertices(ret[k])
         /\ InCircleDet(vs[ret[k][1] + 1], vs[ret[k][2] + 1], vs[ret[k][3] + 1],
                        vs[q + 1]) # 0

\* q lies inside the circle through a, b, c by more than the tolerance:
\* r^2 - d^2 > EPSILON, where r^2 - d^2 = InCircleDet / Orient
InCircleBeyondEPSILON(a, b, c, q) ==
    /\ Orient(a, b, c) # 0
    /\ ~LeEPSILON(Rat(InCircleDet(a, b, c, q), Orient(a, b, c)))

\* C3 within the tolerance of the design: no input point that is not a
\* vertex of a returned triangle lies inside that triangle's circumcircle by
\* more than EPSILON (in squared distance).
C3_DelaunayWithinTolerance ==
    Returned =>
        \A k \in DOMAIN ret : \A q \in 0..(n - 1) :
            q \notin Vertices(ret[k]) =>
                ~InCircleBeyondEPSILON(vs[ret[k][1] + 1], vs[ret[k][2] + 1],
                                       vs[ret[k][3] + 1], vs[q + 1])

\* C4: no directed edge (a,b) occurs in two different returned triangles, and
\* no undirected edge belongs to more than two returned triangles.
C4_SharedEdgesOpposite ==
    Returned =>
        /\ \A k1, k2 \in DOMAIN ret :
             k1 # k2 => DirectedEdges(ret[k1]) \cap DirectedEdges(ret[k2]) = {}
        /\ \A k \in DOMAIN ret : \A e \in UndirectedEdges(ret[k]) :
             Cardinality(TrianglesWithEdge(e)) <= 2

C4_Witness ==
    /\ Returned
    /\ \E k \in DOMAIN ret : \E e \in UndirectedEdges(ret[k]) :
         Cardinality(TrianglesWithEdge(e)) = 2

\* C5: every edge that belongs to exactly one returned triangle lies on the
\* convex hull of the input points.
C5_UnsharedEdgesOnHull ==
    Returned =>
        \A k \in DOMAIN ret : \A e \in DirectedEdges(ret[k]) :
            Cardinality(TrianglesWithEdge({e[1], e[2]})) = 1 => OnHull(e[1], e[2])

\* C6: for n >= 3 points in general position Delaunay2d returns exactly
\* 2n - h - 2 triangles, h the number of convex hull vertices; 3 such points
\* give exactly 1 triangle with all 3 indices.
C6_TriangleCount ==
    (Returned /\ n >= 3 /\ GeneralPosition) =>
        /\ Len(ret) = 2 * n - Cardinality(HullVertices) - 2
        /\ n = 3 => (Len(ret) = 1 /\ Vertices(ret[1]) = {0, 1, 2})

\* C7: after the call the caller's sequence has the length it was passed
\* with, is a permutation of the points passed, and is in ascending x order;
\* the points at the returned indices are the caller's points at those
\* positions.
C7_SortedPermutation ==
    pc = "done" =>
        /\ Len(vs) = BagCardinality(arg)
        /\ SeqToBag(vs) = arg
        /\ \A k \in 1..(Len(vs) - 1) : RLe(vs[k].X, vs[k + 1].X)
        /\ ~err => \A k \in DOMAIN ret : \A m \in 1..3 :
                      /\ ret[k][m] + 1 \in DOMAIN vs
                      /\ vsx[ret[k][m] + 1] = vs[ret[k][m] + 1]

C7_Witness == Returned /\ ~argSorted /\ Len(ret) >= 1

\* C8: for exactly one point p SuperTriangle returns p + (-k,-k), p + (0,k),
\* p + (k,-k) with k = max(|p.x|, |p.y|) * 0.125, or 1 when that is zero; k > 0,
\* so the three vertices are never the same point.
C8_SinglePointTriangle ==
    (Seeded /\ n = 1) =>
        /\ SubSeq(vsx, 2, 4) = TriangleAround(vs[1], SinglePointExtent(vs[1]))
        /\ RGt(SinglePointExtent(vs[1]), R(0))
        /\ ~(vsx[2] = vsx[3] /\ vsx[3] = vsx[4])

\* C9: for two or more points SuperTriangle returns c + (-k,-k), c + (0,k),
\* c + (k,-k), c the centre of the bounding box and k twice its larger side,
\* and every input point lies inside or on that triangle.
C9_BoxTriangleEncloses ==
    (Seeded /\ n >= 2) =>
        /\ SubSeq(vsx, n + 1, n + 3) = ExpectedSuperTriangle
        /\ \A q \in 1..n : InOrOnTriangle(SubSeq(vsx, n + 1, n + 3), vsx[q])

C9_Witness == Returned /\ n >= 3 /\ Len(ret) >= 1

\* C10 as stated: two calls on the same points in any two orders return the
\* same set of triangles, each read as the set of its vertex coordinates,
\* ties in x included.
C10_OrderIndependent ==
    (Returned /\ calls = 2) => TriSet(vsx, ret) = prev

\* C10 amended: two calls on the same points in any two orders return the
\* same set of triangles, each read as the set of its vertex coordinates,
\* when no two different points have the same x.
C10_OrderIndependentNoXTies ==
    (Returned /\ calls = 2 /\ NoXTies) => TriSet(vsx, ret) = prev

C10_Witness == Returned /\ calls = 2 /\ NoXTies /\ ~argSorted /\ prev # {}

\* C11: Delaunay2d on a sequence of exactly one point returns an empty
\* triangle list and no error.
C11_SinglePointEmpty ==
    (pc = "done" /\ Len(vs) = 1) => (~err /\ ret = <<>>)

\* a single point other than the origin has been triangulated: its super
\* triangle was the 0th triangle and the final scan has run
C11_Witness ==
    pc = "done" /\ Len(vs) = 1 /\ vs[1] # V2Zero /\ n = 1 /\ i = 1 /\ Len(vsx) = 4

\* the scan is about to pass over a triangle because its done flag is set,
\* its circumcenter being computable (the flag came from the radius test of
\* an earlier point)
SkipsFlagged ==
    /\ pc = "scan"
    /\ ~ignoreDone
    /\ j < nt
    /\ done[j + 1]
    /\ ~Circumcenter(Triangle2(vsx, ts[j + 1])).err

\* C12: done-flag soundness: a triangle flagged done by the radius test
\* (dx > 0 and dx^2 > r^2) while an earlier point was inserted, and not
\* removed then, is never one the inside test would remove for a later
\* point, so skipping it skips no removal.
C12_DoneFlagSound ==
    SkipsFlagged => ~InCircumcircle(Triangle2(vsx, ts[j + 1]), vsx[i + 1]).inside

\* C13: the done flag is a pure pruning optimization: the engine run with
\* the done flag ignored returns the same set of triangles as Delaunay2d
\* returned for the same points.
C13_DoneFlagPrunesOnly ==
    (pc = "done" /\ ~err /\ ignoreDone) => TriangleSet(ret) = withDone

\* the number of entries of the edge buffer buf with the unordered vertex
\* pair of e
PairCount(buf, e) ==
    Cardinality({k \in DOMAIN buf : {buf[k][1], buf[k][2]} = {e[1], e[2]}})

\* no later entry of buf has the unordered vertex pair of entry k
LastOccurrence(buf, k) ==
    \A m \in DOMAIN buf : m > k => {buf[m][1], buf[m][2]} # {buf[k][1], buf[k][2]}

\* C14 as stated: after the pairwise scan over the edge buffer of an
\* insertion step an edge survives exactly when its unordered vertex pair
\* occurs once in the buffer.
C14_SurvivesIffCountOne ==
    [][pc = "cancel" =>
         \A k \in DOMAIN es : (es'[k] # Tagged) <=> PairCount(es, es[k]) = 1]_vars

\* What the pairwise scan computes: an edge survives exactly when its
\* unordered vertex pair occurs an odd number of times in the buffer and the
\* edge is the last of them; with no pair more than twice in the buffer that
\* is count = 1.
C14_SurvivesIffLastOfOdd ==
    [][pc = "cancel" =>
         \A k \in DOMAIN es :
             (es'[k] # Tagged) <=> (PairCount(es, es[k]) % 2 = 1 /\ LastOccurrence(es, k))]_vars

\* the active triangle at position k (1-based) has coincident points for
\* Circumcenter
Coincident(k) == Circumcenter(Triangle2(vsx, ts[k])).err

\* the triangle at position k has been through the test of line 189: in the
\* scan in progress (positions up to j), or in the scan of an earlier point
\* (it was formed before point i - 1, or is the super triangle)
TestedBefore(k) ==
    \/ k <= j
    \/ ts[k][3] < i - 1
    \/ (ts[k][3] = n + 2 /\ i >= 1)

\* the scan of Delaunay2d is about to test a triangle with coincident points
TestsCoincident ==
    /\ pc = "scan"
    /\ ~ignoreDone
    /\ j < nt
    /\ ~done[j + 1]
    /\ Coincident(j + 1)

\* C15: when Circumcenter fails with coincident points for an active triangle
\* during an insertion step, the triangle is marked done, is not removed, adds
\* no edges to the buffer, and the call continues without error; a triangle
\* with coincident points that has been tested is flagged done, so that the
\* scan never tests it again.
C15_DegenerateAbsorbed ==
    /\ [][TestsCoincident =>
             /\ done' = [done EXCEPT ![j + 1] = TRUE]
             /\ ts' = ts
             /\ nt' = nt
             /\ es' = es
             /\ j' = j + 1
             /\ pc' = "scan"
             /\ err' = FALSE]_vars
    /\ []((pc = "scan" /\ ~ignoreDone) =>
             \A k \in 1..nt : (Coincident(k) /\ TestedBefore(k)) => done[k])

\* two or more points: the scan for a later point skips a triangle that has
\* coincident points for Circumcenter and was flagged when an earlier point
\* was inserted
C15_Witness ==
    /\ pc = "scan"
    /\ ~ignoreDone
    /\ n >= 2
    /\ i >= 1
    /\ j < nt
    /\ done[j + 1]
    /\ Coincident(j + 1)

\* the triangle t of vertex indices into v turns clockwise (y upwards), as
\* the super triangle (p.X-k, p.Y-k), (p.X, p.Y+k), (p.X+k, p.Y-k) does for k > 0
Clockwise(v, t) ==
    RLt(ROrient(v[t[1] + 1], v[t[2] + 1], v[t[3] + 1]), R(0))

\* C16: at every insertion-step boundary (before the first point, and after
\* the triangles of each point are formed) every triangle in the active set
\* is clockwise, and every returned triangle is clockwise.
C16_WindingClockwise ==
    /\ (pc = "point" /\ ~ignoreDone) => \A k \in DOMAIN ts : Clockwise(vsx, ts[k])
    /\ Returned => \A k \in DOMAIN ret : Clockwise(vsx, ret[k])

\* The same for inputs of two or more points, no two of them equal.
C16_WindingClockwiseDistinctPoints ==
    (n >= 2 /\ \A a, b \in DOMAIN vs : vs[a] = vs[b] => a = b) => C16_WindingClockwise

\* a step is one iteration of a swap-remove scan: of the scan of the active
\* triangles for a point, or of the finalization scan
ScanIteration == pc \in {"scan", "final"} /\ pc' = pc

\* Delaunay2d is between its entry and its return
InCall == pc \notin {"idle", "done"}

\* The position of Delaunay2d as a triple of naturals: points still to
\* insert, steps left for the current point (3 at the loop test, 2 in a scan,
\* 1 before the pairwise scan, 0 before the new triangles are formed), and
\* triangles still to visit in the scan in progress.
Rank ==
    <<n - i,
      IF pc = "point" THEN 3 ELSE IF pc \in {"scan", "final"} THEN 2
      ELSE IF pc = "cancel" THEN 1 ELSE 0,
      IF pc \in {"scan", "final"} THEN nt - j ELSE 0>>

\* lexicographic order on triples of naturals, which is well-founded
LexLess(a, b) ==
    \/ a[1] < b[1]
    \/ a[1] = b[1] /\ a[2] < b[2]
    \/ a[1] = b[1] /\ a[2] = b[2] /\ a[3] < b[3]

\* C17: every iteration of a swap-remove scan either advances the index or
\* shrinks the live count, and the slice keeps its length until the re-size,
\* so that a scan over a slice of Len(ts) triangles has made
\* j + Len(ts) - nt <= Len(ts) iterations; the outer loop counts i from 0 to n
\* in steps of one and the finalization starts at i = n; every step of a call
\* of Delaunay2d lowers its position in a well-founded order, so that a call
\* cannot take steps for ever.
C17_Terminates ==
    /\ [][ScanIteration =>
             /\ (j' = j + 1 /\ nt' = nt) \/ (j' = j /\ nt' = nt - 1)
             /\ Len(ts') = Len(ts)]_vars
    /\ [](pc \in {"scan", "final"} => (0 <= j /\ j <= nt /\ nt <= Len(ts)))
    /\ [][i' # i => (i' = i + 1 /\ i < n) \/ (i' = 0 /\ pc = "done")]_vars
    /\ [](pc = "final" => i = n)
    /\ [](InCall => (Rank[1] >= 0 /\ Rank[3] >= 0))
    /\ [][InCall => LexLess(Rank', Rank)]_vars

\* the finalization scan over three or more points is at its end, after
\* iterations that advanced the index and iterations that shrank the count
C17_Witness ==
    /\ pc = "final"
    /\ ~ignoreDone
    /\ n >= 3
    /\ i = n
    /\ j >= 1
    /\ j = nt
    /\ nt < Len(ts)

=============================================================================
